---- MODULE Spec2Model ----
(***************************************************************************)
(* Multi-project data-access layer of pyarchinit-mobile-pwa.               *)
(*                                                                         *)
(*   backend/services/dynamic_db_manager.py  DynamicDatabaseManager        *)
(*   backend/dependencies.py                 get_current_project, ...      *)
(*   backend/routes/projects.py              project and team endpoints    *)
(*   backend/routes/auth.py                  register                      *)
(*                                                                         *)
(* The auth database (users, projects, project_teams), the file system,    *)
(* the shared PostgreSQL server and the manager's engine cache are the     *)
(* state.  Endpoints declared "async def" without an await run to          *)
(* completion on the event loop and are one action each.  get_project_db   *)
(* is also reached from the generator dependencies get_project_db and      *)
(* get_user_workspace_db, which FastAPI runs on worker threads, so its     *)
(* steps (cache test, SELECT, file test, copy, connect, cache store) are   *)
(* separate actions of each caller.                                        *)
(***************************************************************************)
EXTENDS Integers, FiniteSets, Sequences, TLC

\* ------------------------------------------------------------- bounds
MaxProjects == 2   \* project ids 1..MaxProjects (AUTOINCREMENT, never reused)
NumCallers  == 2   \* requests in flight at once
MaxEngines  == 2   \* engines constructed in one run of the process
MaxCloses   == 2   \* calls of close_all that dispose an engine
MaxFaults   == 1   \* RLS statements the shared server rejects

\* the principals: the administrator (id 1) and one user who registers (id 2)
Users      == {1, 2}
ProjectIds == 1..MaxProjects
Callers    == 1..NumCallers

None == "None"

\* ------------------------------------------------------- value spaces
\* models/projects.py DatabaseMode
DatabaseMode == {"sqlite", "postgres", "hybrid"}

\* models/projects.py UserRole
UserRole == {"owner", "admin", "member", "viewer"}

\* models/projects.py ProjectPermissions: the three named permissions
PermNames == {"can_edit", "can_delete", "can_invite"}

\* _create_postgres_engine: required_keys
required_keys == {"host", "port", "database", "user", "password"}

\* _setup_rls: tables
tables == {"us_table", "inventario_materiali_table", "pottery_table",
           "media_table", "mobile_notes"}

\* create_personal_workspace: db_path = f"/data/users/user_{user_id}.sqlite"
UserPath(u) == "/data/users/user_" \o ToString(u) \o ".sqlite"

\* a path a client can put in sqlite_config.path
SitePath == "/data/projects/site.sqlite"

Paths == {SitePath} \cup {UserPath(u) : u \in Users}

\* a Python dict: a function whose domain is the set of keys present
EmptyDict == [k \in {} |-> None]

\* dict.get(key) / dict.get(key, default)
DictGet(d, k, default) == IF k \in DOMAIN d THEN d[k] ELSE default

\* SQLiteConfig(path=...).dict()
SQLiteConfigDict(path) == [k \in {"path"} |-> path]

\* PostgresConfig(...).dict(): every field is present
PostgresConfigDict == [k \in required_keys |-> "set"]

\* the row a SELECT ... FROM projects WHERE id = :id does not find
NoProject == [exists |-> FALSE, owner_id |-> 0, db_mode |-> None,
              db_config |-> EmptyDict, is_personal |-> FALSE,
              name |-> None, description |-> None]

\* a row as it is inserted: the name and description of the request are
\* one value each
ProjectRow(owner, mode, config, personal) ==
    [exists |-> TRUE, owner_id |-> owner, db_mode |-> mode,
     db_config |-> config, is_personal |-> personal,
     name |-> "created", description |-> "created"]

\* one table of the shared server before any _setup_rls
NoRls == [project_id_column |-> FALSE, row_security |-> FALSE, policy |-> 0]

VARIABLES
    users,            \* ids of the rows of table users
    projects,         \* table projects: id -> row
    project_seq,      \* sqlite_sequence of projects: the last id handed out
    project_teams,    \* table project_teams: set of rows
    files,            \* file system: path -> "absent" | "partial" | "template" | "data"
    rls,              \* shared server: table -> column / row security / policy predicate
    db_faults,        \* statement errors the shared server may still raise
    project_engines,  \* DynamicDatabaseManager._project_engines: id -> engine (0: no key)
    engines,          \* every engine constructed so far: engine id -> (project, url)
    handed,           \* history: project id -> engines returned to callers so far
    pc,               \* where each caller is
    proj,             \* get_project_db's project_id
    cfg,              \* get_project_db's locals db_mode, db_config
    eng,              \* get_project_db's local engine (0: none)
    err,              \* the exception raised to the caller
    effects,          \* history: what the caller's call has done
    perm_check,       \* a permission check: its arguments and the two answers
    response,         \* the last answer of a team endpoint: (endpoint, status)
    disposed,         \* engine id -> how many times engine.dispose() ran on it
    inverse_call,     \* get_inverse_relationship: rel_type, its inverse, the inverse of that
    parse_call,       \* parse_relationships: relationships_data and what the call gave
    current_user_id,  \* hybrid server: pooled connection -> its app.current_user_id (0: not set)
    sessions,         \* DatabaseManager.get_session: the sessions handed out
    db_manager_instance, \* the global _db_manager_instance (0: None)
    managers,         \* how many DynamicDatabaseManager objects were constructed
    threads           \* where each thread is in get_db_manager, and what it got

vars == <<users, projects, project_seq, project_teams, files, rls, db_faults,
          project_engines, engines, handed, pc, proj, cfg, eng, err, effects,
          perm_check, response, disposed, inverse_call, parse_call,
          current_user_id, sessions, db_manager_instance, managers, threads>>

strat     == <<inverse_call, parse_call>>
legacy    == <<current_user_id, sessions>>
singleton == <<db_manager_instance, managers, threads>>

\* the state of the modules beside the project registry and its manager
outside == <<inverse_call, parse_call, current_user_id, sessions,
             db_manager_instance, managers, threads>>

registry == <<users, projects, project_seq, project_teams>>
server   == <<files, rls, db_faults>>
manager  == <<project_engines, engines, handed>>
locals   == <<pc, proj, cfg, eng, err, effects>>

NoCfg == [db_mode |-> None, db_config |-> EmptyDict]

\* ------------------------------------------------------------ helpers
\* the rows of project_teams for (project_id, user_id)
TeamRows(p, u) == {r \in project_teams : r.project_id = p /\ r.user_id = u}

\* engines constructed for project p
EnginesOf(p) == {e \in 1..Len(engines) : engines[e].project_id = p}

\* create_engine(url): a new engine object
NewEngine(p, url) == [project_id |-> p, url |-> url]

\* a caller that is not inside a call; "done" and "failed" keep the outcome
\* of its last call until it makes the next one
Free(c) == pc[c] \in {"idle", "done", "failed"}

InFlight == {"check", "lookup", "create", "copy", "copying", "engine", "rls"}

\* ------------------------------------------------- dependencies.py
\* get_current_project without the project_teams query
GetCurrentProjectNoMembership(u, p) ==
    IF p = 0 THEN 400
    ELSE IF ~projects[p].exists THEN 404
    ELSE 200

\* get_current_project: the status it answers with (200: returns project_id)
get_current_project(u, p) ==
    IF p = 0 THEN 400
    ELSE IF ~projects[p].exists THEN 404
    ELSE IF TeamRows(p, u) = {} THEN 403
    ELSE 200

\* a caller enters get_project_db(p)
Enter(c, p) ==
    /\ pc' = [pc EXCEPT ![c] = "check"]
    /\ proj' = [proj EXCEPT ![c] = p]
    /\ cfg' = [cfg EXCEPT ![c] = NoCfg]
    /\ eng' = [eng EXCEPT ![c] = 0]
    /\ err' = [err EXCEPT ![c] = None]
    /\ effects' = [effects EXCEPT ![c] = {}]

\* the call is over: the frame of get_project_db is gone
Leave(c, state, e) ==
    /\ pc' = [pc EXCEPT ![c] = state]
    /\ err' = [err EXCEPT ![c] = e]
    /\ proj' = [proj EXCEPT ![c] = 0]
    /\ cfg' = [cfg EXCEPT ![c] = NoCfg]

\* a dependency answers with an HTTP error before get_project_db is called
Reject(c, e) ==
    /\ Leave(c, "failed", e)
    /\ eng' = [eng EXCEPT ![c] = 0]
    /\ effects' = [effects EXCEPT ![c] = {}]

\* get_current_project, then get_project_db_session (which calls
\* get_db_manager().get_project_db(project_id) once the project id is returned)
get_project_db_session(c, u, p) ==
    /\ Free(c)
    /\ u \in users
    /\ LET status == get_current_project(u, p) IN
       IF status = 200 THEN Enter(c, p) ELSE Reject(c, ToString(status))
    /\ UNCHANGED <<outside, perm_check, disposed, response, registry, server, manager>>

\* dynamic_db_manager.get_project_db(project_id): no check of the principal
get_project_db_dep(c, p) ==
    /\ Free(c)
    /\ Enter(c, p)
    /\ UNCHANGED <<outside, perm_check, disposed, response, registry, server, manager>>

\* get_user_workspace_db: SELECT p.id ... WHERE pt.user_id = :user_id
\* AND p.is_personal = 1 LIMIT 1
PersonalWorkspaces(u) ==
    {p \in ProjectIds : projects[p].exists /\ projects[p].is_personal
                        /\ TeamRows(p, u) # {}}

get_user_workspace_db(c, u) ==
    /\ Free(c)
    /\ u \in users
    /\ IF PersonalWorkspaces(u) = {}
       THEN Reject(c, "no_workspace")
       ELSE \E p \in PersonalWorkspaces(u) : Enter(c, p)
    /\ UNCHANGED <<outside, perm_check, disposed, response, registry, server, manager>>

\* ----------------------------------- DynamicDatabaseManager.get_project_db
\* raise: the call ends with exception e, and nothing is returned
Raise(c, e) ==
    /\ Leave(c, "failed", e)
    /\ eng' = [eng EXCEPT ![c] = 0]
    /\ UNCHANGED handed

\* return engine: the dependency wraps it in a Session and yields; its local
\* `engine` lives until the session is closed
Return(c, engine) ==
    /\ Leave(c, "done", None)
    /\ eng' = [eng EXCEPT ![c] = engine]
    /\ handed' = [handed EXCEPT ![proj[c]] = @ \cup {engine}]

\* self._project_engines[project_id] = engine; return engine
CacheAndReturn(c, engine) ==
    /\ project_engines' = [project_engines EXCEPT ![proj[c]] = engine]
    /\ Return(c, engine)

\* what the call did is kept for a call that failed
Did(c, what) == effects' = [effects EXCEPT ![c] = @ \cup what]

\* if project_id in self._project_engines: return self._project_engines[project_id]
CacheCheck(c) ==
    /\ pc[c] = "check"
    /\ IF project_engines[proj[c]] # 0
       THEN Return(c, project_engines[proj[c]])
       ELSE /\ pc' = [pc EXCEPT ![c] = "lookup"]
            /\ UNCHANGED <<handed, proj, cfg, eng, err>>
    /\ UNCHANGED <<outside, perm_check, disposed, response, registry, server, project_engines, engines, effects>>

\* get_project_db remembering a missing row in the cache (engine 0 - 1)
LookupRemembersMiss(c) ==
    /\ pc[c] = "lookup"
    /\ IF ~projects[proj[c]].exists
       THEN /\ Raise(c, "not_found")
            /\ project_engines' = [project_engines EXCEPT ![proj[c]] = 0 - 1]
       ELSE /\ cfg' = [cfg EXCEPT ![c] =
                         [db_mode |-> projects[proj[c]].db_mode,
                          db_config |-> projects[proj[c]].db_config]]
            /\ pc' = [pc EXCEPT ![c] = "create"]
            /\ UNCHANGED <<project_engines, handed, proj, eng, err>>
    /\ UNCHANGED <<outside, perm_check, disposed, response, registry, server, engines, effects>>

\* SELECT db_mode, db_config FROM projects WHERE id = :id
Lookup(c) ==
    /\ pc[c] = "lookup"
    /\ IF ~projects[proj[c]].exists
       THEN Raise(c, "not_found")
       ELSE /\ cfg' = [cfg EXCEPT ![c] =
                         [db_mode |-> projects[proj[c]].db_mode,
                          db_config |-> projects[proj[c]].db_config]]
            /\ pc' = [pc EXCEPT ![c] = "create"]
            /\ UNCHANGED <<handed, proj, eng, err>>
    /\ UNCHANGED <<outside, perm_check, disposed, response, registry, server, project_engines, engines, effects>>

\* _create_sqlite_engine with os.makedirs moved above the test of db_path
SqliteValidateMkdirFirst(db_config) ==
    LET db_path == DictGet(db_config, "path", None) IN
    IF db_path = None
    THEN [next |-> "invalid", done |-> {"mkdir"}]
    ELSE [next |-> IF files[db_path] = "absent" THEN "copy" ELSE "engine",
          done |-> {"mkdir"}]

\* _create_sqlite_engine up to the os.path.exists test:
\* "invalid", or the next step with the side effects done so far
SqliteValidate(db_config) ==
    LET db_path == DictGet(db_config, "path", None) IN
    IF db_path = None
    THEN [next |-> "invalid", done |-> {}]
    ELSE [next |-> IF files[db_path] = "absent" THEN "copy" ELSE "engine",
          done |-> {"mkdir"}]

\* _create_postgres_engine: the required_keys loop, then create_engine
PostgresValidate(db_config) ==
    IF \E key \in required_keys : key \notin DOMAIN db_config
    THEN [next |-> "invalid", done |-> {}]
    ELSE [next |-> "engine", done |-> {"engine"}]

\* the branch on db_mode of get_project_db, up to its first blocking call
Create(c) ==
    /\ pc[c] = "create"
    /\ LET mode == cfg[c].db_mode
           v == IF mode = "sqlite" THEN SqliteValidate(cfg[c].db_config)
                ELSE IF mode \in {"postgres", "hybrid"}
                     THEN PostgresValidate(cfg[c].db_config)
                     ELSE [next |-> "unknown", done |-> {}]
       IN
       /\ "engine" \in v.done => Len(engines) < MaxEngines
       /\ IF v.next = "invalid" THEN
              /\ Raise(c, "config")
              /\ Did(c, v.done)
              /\ UNCHANGED <<project_engines, engines>>
          ELSE IF v.next = "unknown" THEN
              /\ Raise(c, "unknown_mode")
              /\ Did(c, v.done)
              /\ UNCHANGED <<project_engines, engines>>
          ELSE IF mode = "sqlite" THEN
              /\ pc' = [pc EXCEPT ![c] = v.next]
              /\ Did(c, v.done)
              /\ UNCHANGED <<manager, proj, cfg, eng, err>>
          ELSE IF mode = "hybrid" THEN
              \* engine = self._create_postgres_engine(db_config); _setup_rls follows
              /\ engines' = Append(engines, NewEngine(proj[c], "postgresql"))
              /\ eng' = [eng EXCEPT ![c] = Len(engines) + 1]
              /\ pc' = [pc EXCEPT ![c] = "rls"]
              /\ Did(c, v.done)
              /\ UNCHANGED <<project_engines, handed, proj, cfg, err>>
          ELSE
              \* postgres: create_engine opens no connection; cache and return
              /\ engines' = Append(engines, NewEngine(proj[c], "postgresql"))
              /\ CacheAndReturn(c, Len(engines) + 1)
              /\ effects' = [effects EXCEPT ![c] = {}]
    /\ UNCHANGED <<outside, perm_check, disposed, response, registry, server>>

\* _initialize_pyarchinit_db up to the point where shutil.copy2 has opened
\* (created or truncated) the target; the template may be missing
CopyOpen(c) ==
    /\ pc[c] = "copy"
    /\ LET db_path == cfg[c].db_config["path"] IN
       \E template_exists \in BOOLEAN :
          IF ~template_exists
          THEN /\ Raise(c, "no_template")
               /\ UNCHANGED <<files, effects>>
          ELSE /\ files' = [files EXCEPT ![db_path] = "partial"]
               /\ Did(c, {"copy"})
               /\ pc' = [pc EXCEPT ![c] = "copying"]
               /\ UNCHANGED <<handed, proj, cfg, eng, err>>
    /\ UNCHANGED <<outside, perm_check, disposed, response, registry, rls, db_faults, project_engines, engines>>

\* shutil.copy2 writes the rest of the template, or fails part-way (disk
\* full, I/O error) and leaves what it wrote
CopyFinish(c) ==
    /\ pc[c] = "copying"
    /\ LET db_path == cfg[c].db_config["path"] IN
       \E copied \in BOOLEAN :
          IF copied
          THEN /\ files' = [files EXCEPT ![db_path] = "template"]
               /\ pc' = [pc EXCEPT ![c] = "engine"]
               /\ UNCHANGED <<handed, proj, cfg, eng, err>>
          ELSE /\ Raise(c, "copy_error")
               /\ UNCHANGED files
    /\ UNCHANGED <<outside, perm_check, disposed, response, registry, rls, db_faults, project_engines, engines, effects>>

\* _create_sqlite_engine: create_engine(f"sqlite:///{db_path}"), then the
\* cache store and the return of get_project_db
OpenEngine(c) ==
    /\ pc[c] = "engine"
    /\ Len(engines) < MaxEngines
    /\ engines' = Append(engines, NewEngine(proj[c], cfg[c].db_config["path"]))
    /\ CacheAndReturn(c, Len(engines) + 1)
    /\ effects' = [effects EXCEPT ![c] = {}]
    /\ UNCHANGED <<outside, perm_check, disposed, response, registry, server>>

\* _setup_rls, one table, where the policy statement removes a policy that
\* is on the table already
SetupRlsTableDropsPolicy(t, project_id, failing) ==
    [project_id_column |-> t.project_id_column \/ failing # 1,
     row_security      |-> t.row_security \/ failing \in {0, 3},
     policy            |-> IF failing = 0
                           THEN (IF t.policy = 0 THEN project_id ELSE 0)
                           ELSE t.policy]

\* _setup_rls, one table: the three statements in order; `failing` is the
\* statement that raises (0: none), after which the except branch skips the
\* rest of this table.  CREATE POLICY IF NOT EXISTS project_isolation_{table}
\* creates nothing when a policy of that name is on the table already.
SetupRlsTable(t, project_id, failing) ==
    [project_id_column |-> t.project_id_column \/ failing # 1,
     row_security      |-> t.row_security \/ failing \in {0, 3},
     policy            |-> IF failing = 0 /\ t.policy = 0
                           THEN project_id ELSE t.policy]

\* the statement errors the server may raise during one _setup_rls
StatementErrors ==
    {f \in [tables -> 0..3] :
        Cardinality({t \in tables : f[t] # 0}) <= db_faults}

\* _setup_rls(engine, project_id): engine.connect() is outside the try, so a
\* refused connection escapes; statement errors are caught and printed.
\* Then the cache store and the return of get_project_db.
SetupRls(c) ==
    /\ pc[c] = "rls"
    /\ \E connected \in BOOLEAN :
          IF ~connected
          THEN /\ Raise(c, "connect")
               /\ Did(c, {"connect"})
               /\ UNCHANGED <<rls, db_faults, project_engines>>
          ELSE \E failing \in StatementErrors :
               /\ rls' = [t \in tables |-> SetupRlsTable(rls[t], proj[c], failing[t])]
               /\ db_faults' = db_faults - Cardinality({t \in tables : failing[t] # 0})
               /\ CacheAndReturn(c, eng[c])
               /\ effects' = [effects EXCEPT ![c] = {}]
    /\ UNCHANGED <<outside, perm_check, disposed, response, registry, files, engines>>

\* --------------------------------------------------- routes/projects.py
\* _get_user_permissions: (role, permissions) of the membership row, or
\* (None, None); a NULL permissions column reads as {}
GetUserPermissions(p, u) ==
    IF TeamRows(p, u) = {}
    THEN [role |-> None, permissions |-> EmptyDict]
    ELSE LET r == CHOOSE r \in TeamRows(p, u) : TRUE IN
         [role |-> r.role, permissions |-> r.permissions]

\* _check_permission where only the owner bypasses the stored map
PermissionGrantedOwnerOnly(role, permissions, required_permission) ==
    IF role = None THEN FALSE
    ELSE IF role = "owner" THEN TRUE
    ELSE DictGet(permissions, required_permission, FALSE)

\* the decision of _check_permission on a (role, permissions) pair
PermissionGranted(role, permissions, required_permission) ==
    IF role = None THEN FALSE
    ELSE IF role \in {"owner", "admin"} THEN TRUE
    ELSE DictGet(permissions, required_permission, FALSE)

\* _check_permission(db, project_id, user_id, required_permission)
CheckPermission(p, u, required_permission) ==
    LET rp == GetUserPermissions(p, u) IN
    PermissionGranted(rp.role, rp.permissions, required_permission)

\* dependencies.require_project_permission on a membership row (or none):
\* 200 for "return True", 403 for the HTTPException
RequirePermission(role, permissions, permission) ==
    IF role = None THEN 403
    ELSE IF role \in {"owner", "admin"} THEN 200
    ELSE IF ~DictGet(permissions, permission, FALSE) THEN 403
    ELSE 200

\* a stored permissions column: a JSON object with any of the three keys;
\* NULL and {} both read as the empty dict
StoredPermissions ==
    UNION {[keys -> BOOLEAN] : keys \in SUBSET PermNames}

\* no permission check has been made
NoCheck ==
    [role |-> None, permissions |-> EmptyDict, permission |-> None,
     called |-> FALSE, check |-> FALSE, require |-> 0]

\* _check_permission and require_project_permission are both asked about the
\* same membership row (role None: no row) and the same permission name
CheckPermissions ==
    /\ ~perm_check.called
    /\ perm_check' =
          [perm_check EXCEPT
              !.called = TRUE,
              !.check = PermissionGranted(perm_check.role, perm_check.permissions,
                                          perm_check.permission),
              !.require = RequirePermission(perm_check.role, perm_check.permissions,
                                            perm_check.permission)]
    /\ UNCHANGED <<outside, response, disposed, registry, server, manager, locals>>

Permissions(e, d, i) ==
    [k \in PermNames |-> IF k = "can_edit" THEN e
                         ELSE IF k = "can_delete" THEN d ELSE i]

\* add_team_member: the permissions used when the request carries none
DefaultPermissions(role) ==
    Permissions(role \in {"admin", "member"}, role = "admin", role = "admin")

\* AddTeamMemberRequest.permissions = None
NoPermissions == EmptyDict

\* the ProjectPermissions a request may carry
RequestPermissions ==
    {NoPermissions, Permissions(FALSE, FALSE, TRUE)}

TeamRow(p, u, role, permissions) ==
    [project_id |-> p, user_id |-> u, role |-> role, permissions |-> permissions]

\* PRAGMA foreign_keys is never issued on the auth database, so SQLite does
\* not enforce REFERENCES ... ON DELETE CASCADE
foreign_keys == FALSE

\* the result of _initialize_pyarchinit_db(db_path) run to its end
CopyOutcomes == {"copied", "no_template", "copy_error"}

FileAfterCopy(before, outcome) ==
    IF outcome = "copied" THEN "template"
    ELSE IF outcome = "copy_error" THEN "partial"
    ELSE before

\* the sqlite_config.path values a client sends
ClientPaths == {None, SitePath, UserPath(2)}

\* the INSERT that raises, when one does
InsertErrors == {"project_insert_error", "team_insert_error"}

\* where a create_project or create_personal_workspace call first fails
Outcomes == InsertErrors \cup CopyOutcomes

\* the two INSERTs with db.commit() moved between them
CommittedAfterFirstInsert(outcome, project_id, row, team_row) ==
    IF outcome = "project_insert_error"
    THEN [projects |-> projects, project_seq |-> project_seq,
          project_teams |-> project_teams]
    ELSE [projects |-> [projects EXCEPT ![project_id] = row],
          project_seq |-> project_id,
          project_teams |-> IF outcome = "team_insert_error" THEN project_teams
                            ELSE project_teams \cup {team_row}]

\* INSERT INTO projects, INSERT INTO project_teams, commit: one transaction;
\* when an INSERT raises, the rollback (db.rollback() in create_project, the
\* close of the connection in create_personal_workspace) undoes both
Committed(outcome, project_id, row, team_row) ==
    IF outcome \in InsertErrors
    THEN [projects |-> projects, project_seq |-> project_seq,
          project_teams |-> project_teams]
    ELSE [projects |-> [projects EXCEPT ![project_id] = row],
          project_seq |-> project_id,
          project_teams |-> project_teams \cup {team_row}]

\* create_project: does the block after db.commit() copy the template
CreateCopies(mode, path) ==
    mode = "sqlite" /\ path # None /\ files[path] = "absent"

\* create_project: the status of the response
CreateStatus(mode, path, outcome) ==
    IF outcome \in InsertErrors THEN 500
    ELSE IF mode # "sqlite" THEN 200
    ELSE IF path = None THEN 500          \* os.path.dirname(None) raises
    ELSE IF files[path] # "absent" THEN 200
    ELSE IF outcome = "copied" THEN 200 ELSE 500

\* POST /api/projects/create
create_project(u, mode, path, outcome) ==
    /\ u \in users
    /\ project_seq < MaxProjects
    /\ mode # "sqlite" => path = None
    /\ ~CreateCopies(mode, path) => outcome \notin {"no_template", "copy_error"}
    /\ LET db_config == IF mode = "sqlite" THEN SQLiteConfigDict(path)
                        ELSE PostgresConfigDict
           project_id == project_seq + 1
           after == Committed(outcome, project_id,
                              ProjectRow(u, mode, db_config, FALSE),
                              TeamRow(project_id, u, "owner",
                                      Permissions(TRUE, TRUE, TRUE)))
       IN
       /\ projects' = after.projects
       /\ project_seq' = after.project_seq
       /\ project_teams' = after.project_teams
       \* after db.commit() the except branch's db.rollback() undoes nothing
       /\ files' = IF CreateCopies(mode, path) /\ outcome \notin InsertErrors
                   THEN [files EXCEPT ![path] = FileAfterCopy(@, outcome)]
                   ELSE files
    /\ UNCHANGED <<outside, perm_check, disposed, response, users, rls, db_faults, manager, locals>>

\* delete_project without the is_personal test
DeleteStatusNoPersonalTest(u, p) ==
    IF ~projects[p].exists THEN 404
    ELSE IF projects[p].owner_id # u THEN 403
    ELSE 200

\* delete_project: the status of the response
DeleteStatus(u, p) ==
    IF ~projects[p].exists THEN 404
    ELSE IF projects[p].owner_id # u THEN 403
    ELSE IF projects[p].is_personal THEN 400
    ELSE 200

\* DELETE /api/projects/{project_id}
delete_project(u, p) ==
    /\ u \in users
    /\ IF DeleteStatus(u, p) = 200
       THEN /\ projects' = [projects EXCEPT ![p] = NoProject]
            /\ project_teams' = IF foreign_keys
                                THEN {r \in project_teams : r.project_id # p}
                                ELSE project_teams
       ELSE UNCHANGED <<projects, project_teams>>
    /\ UNCHANGED <<outside, perm_check, disposed, response, users, project_seq, server, manager, locals>>

\* no team endpoint has answered yet
NoResponse == [endpoint |-> None, status |-> 0]

\* update_project setting db_mode along with the name
UpdatedRowWithMode(row, name, description) ==
    [row EXCEPT !.name = IF name # None THEN name ELSE @,
                !.description = IF description # None THEN description ELSE @,
                !.db_mode = IF name # None THEN "sqlite" ELSE @]

\* UPDATE projects SET name = :name, description = :description: only the
\* fields the request carries
UpdatedRow(row, name, description) ==
    [row EXCEPT !.name = IF name # None THEN name ELSE @,
                !.description = IF description # None THEN description ELSE @]

\* update_project: the status of the response; the handler ends with
\* get_project_detail, which answers 404 when the row is gone
UpdateStatus(u, p, name, description) ==
    IF ~CheckPermission(p, u, "can_edit") THEN 403
    ELSE IF name = None /\ description = None THEN 400
    ELSE IF ~projects[p].exists THEN 404
    ELSE 200

\* the values a ProjectUpdate field may carry
UpdateValues == {None, "renamed"}

\* PUT /api/projects/{project_id}
update_project(u, p, name, description) ==
    /\ u \in users
    /\ IF UpdateStatus(u, p, name, description) = 200
       THEN projects' = [projects EXCEPT ![p] = UpdatedRow(@, name, description)]
       ELSE UNCHANGED projects
    /\ UNCHANGED <<outside, perm_check, disposed, response, users, project_seq,
                   project_teams, server, manager, locals>>

\* switch_project: the status of the response
SwitchStatus(u, p) ==
    IF GetUserPermissions(p, u).role = None THEN 403
    ELSE IF ~projects[p].exists THEN 404
    ELSE 200

\* POST /api/projects/switch: it reads, and writes nothing
switch_project(u, p) ==
    /\ u \in users
    /\ SwitchStatus(u, p) \in {200, 403, 404}
    /\ UNCHANGED vars

\* upload_database: the status of the response; `valid` is whether the
\* uploaded bytes are a SQLite database that sqlite3 can read
UploadStatus(u, p, valid) ==
    IF ~projects[p].exists THEN 404
    ELSE IF projects[p].owner_id # u THEN 403
    ELSE IF projects[p].db_mode # "sqlite" THEN 400
    ELSE IF DictGet(projects[p].db_config, "path", None) = None THEN 500
    ELSE IF ~valid THEN 500
    ELSE 200

\* POST /api/projects/{project_id}/upload-db: the uploaded bytes replace the
\* file before they are validated
upload_database(u, p, valid) ==
    /\ u \in users
    /\ IF UploadStatus(u, p, TRUE) = 200
       THEN files' = [files EXCEPT ![projects[p].db_config["path"]] =
                         IF valid THEN "data" ELSE "invalid"]
       ELSE UNCHANGED files
    /\ UNCHANGED <<outside, perm_check, disposed, response, registry, rls, db_faults,
                   manager, locals>>

\* add_team_member without AddTeamMemberRequest.validate_role
AddChecksNoRoleTest(u, p, target, role) ==
    IF ~CheckPermission(p, u, "can_invite") THEN 403
    ELSE IF target \notin users THEN 404
    ELSE IF TeamRows(p, target) # {} THEN 400
    ELSE 200

\* add_team_member without the "already a team member" query
AddChecksNoMemberTest(u, p, target, role) ==
    IF role = "owner" THEN 422
    ELSE IF ~CheckPermission(p, u, "can_invite") THEN 403
    ELSE IF target \notin users THEN 404
    ELSE 200

\* add_team_member: the HTTPException raised before the INSERT (200: none)
AddChecks(u, p, target, role) ==
    IF role = "owner" THEN 422         \* AddTeamMemberRequest.validate_role
    ELSE IF ~CheckPermission(p, u, "can_invite") THEN 403
    ELSE IF target \notin users THEN 404
    ELSE IF TeamRows(p, target) # {} THEN 400
    ELSE 200

\* UNIQUE(project_id, user_id): would an INSERT of a row for (p, u) raise
UniqueViolated(p, u) == TeamRows(p, u) # {}

\* add_team_member: the status of the response; an INSERT that raises is
\* rolled back and answered 500
AddStatus(u, p, target, role) ==
    IF AddChecks(u, p, target, role) = 200 /\ UniqueViolated(p, target)
    THEN 500
    ELSE AddChecks(u, p, target, role)

\* POST /api/projects/{project_id}/team
add_team_member(u, p, target, role, permissions) ==
    /\ u \in users
    /\ IF AddStatus(u, p, target, role) = 200
       THEN project_teams' = project_teams \cup
               {TeamRow(p, target, role,
                        IF permissions # NoPermissions THEN permissions
                        ELSE DefaultPermissions(role))}
       ELSE UNCHANGED project_teams
    /\ response' = [endpoint |-> "add_team_member",
                    status |-> AddStatus(u, p, target, role)]
    /\ UNCHANGED <<outside, perm_check, disposed, users, projects, project_seq, server, manager, locals>>

\* remove_team_member without the comparison of user_id with owner_id
RemoveStatusNoOwnerTest(u, p, target) ==
    IF ~CheckPermission(p, u, "can_invite") THEN 403
    ELSE IF ~projects[p].exists THEN 404
    ELSE IF TeamRows(p, target) = {} THEN 404
    ELSE 200

\* remove_team_member: the status of the response
RemoveStatus(u, p, target) ==
    IF ~CheckPermission(p, u, "can_invite") THEN 403
    ELSE IF ~projects[p].exists THEN 404
    ELSE IF projects[p].owner_id = target THEN 400
    ELSE IF TeamRows(p, target) = {} THEN 404   \* result.rowcount == 0
    ELSE 200

\* DELETE /api/projects/{project_id}/team/{user_id}
remove_team_member(u, p, target) ==
    /\ u \in users
    /\ IF RemoveStatus(u, p, target) = 200
       THEN project_teams' = project_teams \ TeamRows(p, target)
       ELSE UNCHANGED project_teams
    /\ response' = [endpoint |-> "remove_team_member",
                    status |-> RemoveStatus(u, p, target)]
    /\ UNCHANGED <<outside, perm_check, disposed, users, projects, project_seq, server, manager, locals>>

\* ------------------------------------- create_personal_workspace, register
\* DynamicDatabaseManager.create_personal_workspace(user_id, user_name):
\* both rows are committed, then the template is copied with no test of
\* whether db_path exists
create_personal_workspace(u, outcome) ==
    LET db_path == UserPath(u)
        project_id == project_seq + 1
        after == Committed(outcome, project_id,
                           ProjectRow(u, "sqlite", SQLiteConfigDict(db_path), TRUE),
                           TeamRow(project_id, u, "owner",
                                   Permissions(TRUE, TRUE, FALSE)))
    IN
    /\ projects' = after.projects
    /\ project_seq' = after.project_seq
    /\ project_teams' = after.project_teams
    /\ files' = IF outcome \in InsertErrors THEN files
                ELSE [files EXCEPT ![db_path] = FileAfterCopy(@, outcome)]

\* register: the status of the response
RegisterStatus(outcome) == IF outcome = "copied" THEN 200 ELSE 500

\* POST /api/auth/register: AuthService.register_user commits the user row,
\* then the personal workspace is created
register(u, outcome) ==
    /\ u \notin users
    /\ u = Cardinality(users) + 1
    /\ u \in Users
    /\ project_seq < MaxProjects
    /\ users' = users \cup {u}
    /\ create_personal_workspace(u, outcome)
    /\ UNCHANGED <<outside, perm_check, disposed, response, rls, db_faults, manager, locals>>

\* how a request that holds a session ends: the route returned (None), it
\* raised, or it was cancelled
RequestEnds == {None, "raised", "cancelled"}

\* a release that also disposes the engine of the session
ReleaseSessionDisposing(c, how) ==
    /\ pc[c] = "done"
    /\ disposed[eng[c]] < MaxCloses
    /\ pc' = [pc EXCEPT ![c] = "idle"]
    /\ eng' = [eng EXCEPT ![c] = 0]
    /\ err' = [err EXCEPT ![c] = how]
    /\ disposed' = [disposed EXCEPT ![eng[c]] = @ + 1]
    /\ UNCHANGED <<outside, perm_check, response, registry, server, manager,
                   proj, cfg, effects>>

\* finally: session.close() in get_project_db_session, get_project_db and
\* get_user_workspace_db, reached when the request ends, whether the route
\* returned, raised or was cancelled; the engine is not touched
ReleaseSession(c, how) ==
    /\ pc[c] = "done"
    /\ pc' = [pc EXCEPT ![c] = "idle"]
    /\ eng' = [eng EXCEPT ![c] = 0]
    /\ err' = [err EXCEPT ![c] = how]
    /\ UNCHANGED <<outside, perm_check, response, disposed, registry, server, manager,
                   proj, cfg, effects>>

\* DynamicDatabaseManager.close_all: engine.dispose() on every value of
\* _project_engines; the dict is left as it is
close_all ==
    /\ \A p \in ProjectIds :
          project_engines[p] # 0 => disposed[project_engines[p]] < MaxCloses
    /\ disposed' = [e \in 1..MaxEngines |->
                       IF \E p \in ProjectIds : project_engines[p] = e
                       THEN disposed[e] + 1 ELSE disposed[e]]
    /\ UNCHANGED <<outside, perm_check, response, registry, server, manager, locals>>

\* a caller that was handed a SQLite engine writes rows through a session on
\* it: the project's file now holds data
WriteData(e) ==
    /\ \E p \in ProjectIds : e \in handed[p]
    /\ engines[e].url \in Paths
    /\ files[engines[e].url] = "template"
    /\ files' = [files EXCEPT ![engines[e].url] = "data"]
    /\ UNCHANGED <<outside, perm_check, disposed, response, registry, rls, db_faults, manager, locals>>

\* ------------------------------- services/stratigraphic_utils.py
\* StratigraphicRelationships.VALID_RELATIONSHIPS
VALID_RELATIONSHIPS ==
    {"Copre", "Coperto da", "Taglia", "Tagliato da", "Riempie", "Riempito da",
     "Si appoggia a", "Gli si appoggia", "Si lega a", "Uguale a",
     "Anteriore a", "Posteriore a"}

\* StratigraphicRelationships.ENGLISH_TO_ITALIAN
ENGLISH_TO_ITALIAN ==
    ("covers" :> "Copre") @@ ("covered by" :> "Coperto da") @@
    ("cuts" :> "Taglia") @@ ("cut by" :> "Tagliato da") @@
    ("fills" :> "Riempie") @@ ("filled by" :> "Riempito da") @@
    ("leans against" :> "Si appoggia a") @@
    ("leaned against by" :> "Gli si appoggia") @@
    ("bonds to" :> "Si lega a") @@ ("equal to" :> "Uguale a") @@
    ("earlier than" :> "Anteriore a") @@ ("later than" :> "Posteriore a")

\* a table of inverses in which "Si lega a" answers "Uguale a"
inversesBondsToEqual ==
    ("Copre" :> "Coperto da") @@ ("Coperto da" :> "Copre") @@
    ("Taglia" :> "Tagliato da") @@ ("Tagliato da" :> "Taglia") @@
    ("Riempie" :> "Riempito da") @@ ("Riempito da" :> "Riempie") @@
    ("Si appoggia a" :> "Gli si appoggia") @@
    ("Gli si appoggia" :> "Si appoggia a") @@
    ("Si lega a" :> "Uguale a") @@ ("Uguale a" :> "Uguale a") @@
    ("Anteriore a" :> "Posteriore a") @@ ("Posteriore a" :> "Anteriore a")

\* get_inverse_relationship: the dict inverses
inverses ==
    ("Copre" :> "Coperto da") @@ ("Coperto da" :> "Copre") @@
    ("Taglia" :> "Tagliato da") @@ ("Tagliato da" :> "Taglia") @@
    ("Riempie" :> "Riempito da") @@ ("Riempito da" :> "Riempie") @@
    ("Si appoggia a" :> "Gli si appoggia") @@
    ("Gli si appoggia" :> "Si appoggia a") @@
    ("Si lega a" :> "Si lega a") @@ ("Uguale a" :> "Uguale a") @@
    ("Anteriore a" :> "Posteriore a") @@ ("Posteriore a" :> "Anteriore a")

\* StratigraphicRelationships.get_inverse_relationship(rel_type):
\* inverses.get(rel_type)
get_inverse_relationship(rel_type) == DictGet(inverses, rel_type, None)

\* no call has given a result yet: among strings, and among Python values
NotCalled == "<not called>"
Unset == [type |-> "unset"]

\* the arguments a caller passes to get_inverse_relationship: the valid
\* types, a lower-case spelling, an English name, a type that is not in the
\* list, the empty string
RelTypes == VALID_RELATIONSHIPS \cup {"copre", "covers", "Sopra", ""}

NoInverseCall == [rel_type |-> None, inverse |-> NotCalled, back |-> NotCalled]

\* inverse = get_inverse_relationship(rel_type)
InverseCall ==
    /\ inverse_call.rel_type \in RelTypes
    /\ inverse_call.inverse = NotCalled
    /\ inverse_call' = [inverse_call EXCEPT
                           !.inverse = get_inverse_relationship(inverse_call.rel_type)]
    /\ UNCHANGED <<parse_call, legacy, singleton, perm_check, disposed, response, registry,
                   server, manager, locals>>

\* back = get_inverse_relationship(inverse)
InverseBackCall ==
    /\ inverse_call.inverse # NotCalled
    /\ inverse_call.back = NotCalled
    /\ inverse_call' = [inverse_call EXCEPT
                           !.back = get_inverse_relationship(inverse_call.inverse)]
    /\ UNCHANGED <<parse_call, legacy, singleton, perm_check, disposed, response, registry,
                   server, manager, locals>>

\* Python values: each carries its type
PyNone == [type |-> "NoneType"]
PyInt(n) == [type |-> "int", value |-> n]
PyList(items) == [type |-> "list", items |-> items]
PyDict(d) == [type |-> "dict", get |-> d]

\* a str: its characters are left out; what json.loads and ast.literal_eval
\* make of it is kept (a value, or the exception raised)
PyStr(empty, json, literal) ==
    [type |-> "str", empty |-> empty, json |-> json, literal |-> literal]

JSONDecodeError == [type |-> "JSONDecodeError"]
SyntaxError == [type |-> "SyntaxError"]
AttributeError == [type |-> "AttributeError"]

\* bool(value) as `if not relationships_data` uses it
Truthy(value) ==
    CASE value.type = "NoneType" -> FALSE
      [] value.type = "int" -> value.value # 0
      [] value.type = "list" -> Len(value.items) > 0
      [] value.type = "dict" -> DOMAIN value.get # {}
      [] value.type = "str" -> ~value.empty
      [] OTHER -> TRUE

\* str.lower() on the type names that occur
lower(str) ==
    CASE str = "Copre" -> "copre"
      [] str = "Covers" -> "covers"
      [] str = "Taglia" -> "taglia"
      [] OTHER -> str

\* the body of the for loop of _convert_dict_list_to_pyarchinit_format for
\* one dict: the entries it appends to result
ConvertedEntry(rel) ==
    LET given == DictGet(rel, "type", "")
        rel_type == IF lower(given) \in DOMAIN ENGLISH_TO_ITALIAN
                    THEN ENGLISH_TO_ITALIAN[lower(given)]
                    ELSE given
        us == DictGet(rel, "us", DictGet(rel, "target_us", ""))
        area == DictGet(rel, "area", "")
        site == DictGet(rel, "site", "")
    IN IF rel_type \notin VALID_RELATIONSHIPS THEN << >>
       ELSE IF us = "" THEN << >>
       ELSE <<PyList(<<rel_type, us, area, site>>)>>

\* _convert_dict_list_to_pyarchinit_format(dict_list): rel.get raises
\* AttributeError on an element that is not a dict
RECURSIVE ConvertFrom(_, _, _)
ConvertFrom(dict_list, i, result) ==
    IF i > Len(dict_list) THEN PyList(result)
    ELSE IF dict_list[i].type # "dict" THEN AttributeError
    ELSE ConvertFrom(dict_list, i + 1, result \o ConvertedEntry(dict_list[i].get))

convert_dict_list_to_pyarchinit_format(dict_list) == ConvertFrom(dict_list, 1, << >>)

\* parse_relationships after the string has been parsed: the tests of
\* relationships_data[0]
ParseParsed(relationships_data) ==
    IF relationships_data.type = "list" /\ Len(relationships_data.items) > 0
    THEN LET first == relationships_data.items[1] IN
         IF first.type = "list" /\ Len(first.items) = 4
         THEN relationships_data
         ELSE IF first.type = "dict"
         THEN convert_dict_list_to_pyarchinit_format(relationships_data.items)
         ELSE PyList(<< >>)
    ELSE PyList(<< >>)

\* StratigraphicRelationships.parse_relationships(relationships_data): the
\* list it returns, or the exception it raises
parse_relationships(relationships_data) ==
    IF ~Truthy(relationships_data) THEN PyList(<< >>)
    ELSE IF relationships_data.type = "str"
    THEN IF relationships_data.json # JSONDecodeError
         THEN ParseParsed(relationships_data.json)
         ELSE IF relationships_data.literal # SyntaxError
         THEN ParseParsed(relationships_data.literal)
         ELSE PyList(<< >>)
    ELSE ParseParsed(relationships_data)

\* the longest list passed to parse_relationships
MaxRelationships == 2

\* the elements of the lists passed to parse_relationships: a four-entry
\* list, a two-entry list, and dicts with an Italian type, an English type,
\* an unknown type, no target, and target_us for us
ListElements ==
    {PyList(<<"Copre", "2045", "1", "Scavo archeologico">>),
     PyList(<<"Taglia", "2044">>),
     PyDict([type |-> "Copre", us |-> "2", area |-> "1", site |-> "X"]),
     PyDict([type |-> "Covers", us |-> "2"]),
     PyDict([type |-> "bogus", us |-> "2"]),
     PyDict([type |-> "Taglia", us |-> ""]),
     PyDict([type |-> "cuts", target_us |-> "3"])}

\* lists of at most MaxRelationships elements
Lists ==
    {PyList(items) :
        items \in UNION {[1..n -> ListElements] : n \in 0..MaxRelationships}}

\* the values json.loads and ast.literal_eval may give
Decoded == Lists \cup {PyInt(5), PyNone}

\* the arguments a caller passes to parse_relationships: None, an int, a
\* dict, a list, the empty string, JSON text, text that is a Python literal
\* but not JSON, and text that is neither
ParseInputs ==
    {PyNone, PyInt(0), PyInt(5), PyDict([type |-> "Copre", us |-> "2"])}
    \cup Lists
    \cup {PyStr(TRUE, JSONDecodeError, SyntaxError),
          PyStr(FALSE, JSONDecodeError, SyntaxError)}
    \cup {PyStr(FALSE, v, v) : v \in Decoded}
    \cup {PyStr(FALSE, JSONDecodeError, v) : v \in Decoded}

NoParseCall == [data |-> PyNone, result |-> Unset]

\* result = parse_relationships(data)
ParseCall ==
    /\ parse_call.result = Unset
    /\ parse_call' = [parse_call EXCEPT
                         !.result = parse_relationships(parse_call.data)]
    /\ UNCHANGED <<inverse_call, legacy, singleton, perm_check, disposed, response, registry,
                   server, manager, locals>>

\* ------------------------------------------ services/db_manager.py
\* DatabaseManager in hybrid mode: one engine, whose pool keeps connections
\* to the shared server open between sessions
MaxConnections == 2
MaxSessions == 2

Connections == 1..MaxConnections
Sessions == 1..MaxSessions

\* no statement has run in the session yet
NotRun == -1

\* a session slot that is not in use
NoSession == [open |-> FALSE, user_id |-> 0, conn |-> 0, begin |-> 0,
              ran |-> NotRun]

\* a connection the pool has not opened yet
Unopened == -2

\* app.current_user_id on connection k; a connection is opened without it
Context(k) == IF current_user_id[k] = Unopened THEN 0 ELSE current_user_id[k]

\* the pool: a checkout takes an idle connection, and opens a new one only
\* when none is idle
IdleConnections ==
    {k \in Connections : current_user_id[k] # Unopened}
        \ {sessions[s].conn : s \in Sessions}

FreeConnections ==
    IF IdleConnections # {} THEN IdleConnections
    ELSE {k \in Connections :
             /\ current_user_id[k] = Unopened
             /\ \A j \in Connections : current_user_id[j] = Unopened => k <= j}

\* DatabaseManager.get_session(user_id), user_id 0 for None: the session is
\* made, and when a user id is given SET app.current_user_id runs in it, which
\* begins a transaction on a connection taken from the pool
get_session(s, user_id) ==
    /\ ~sessions[s].open
    /\ IF user_id # 0
       THEN \E k \in FreeConnections :
               /\ sessions' = [sessions EXCEPT ![s] =
                      [open |-> TRUE, user_id |-> user_id, conn |-> k,
                       begin |-> Context(k), ran |-> NotRun]]
               /\ current_user_id' = [current_user_id EXCEPT ![k] = user_id]
       ELSE /\ sessions' = [sessions EXCEPT ![s] =
                      [NoSession EXCEPT !.open = TRUE]]
            /\ UNCHANGED current_user_id
    /\ UNCHANGED <<strat, singleton, perm_check, disposed, response, registry,
                   server, manager, locals>>

\* the route runs a statement in its session: the session's transaction
\* continues on its connection, or begins on one taken from the pool; the
\* statement runs with the context of that connection
Execute(s) ==
    /\ sessions[s].open
    /\ \E k \in (IF sessions[s].conn # 0 THEN {sessions[s].conn}
                 ELSE FreeConnections) :
          /\ sessions' = [sessions EXCEPT
                             ![s].conn = k,
                             ![s].begin = IF sessions[s].conn # 0 THEN @
                                          ELSE Context(k),
                             ![s].ran = Context(k)]
          /\ current_user_id' = [current_user_id EXCEPT ![k] = Context(k)]
    /\ UNCHANGED <<strat, singleton, perm_check, disposed,
                   response, registry, server, manager, locals>>

\* db.commit() in a route: the SET of the transaction stays on the
\* connection, which goes back to the pool
Commit(s) ==
    /\ sessions[s].open
    /\ sessions[s].conn # 0
    /\ sessions' = [sessions EXCEPT ![s].conn = 0]
    /\ UNCHANGED <<current_user_id, strat, singleton, perm_check, disposed,
                   response, registry, server, manager, locals>>

\* get_db: finally session.close(): an open transaction is rolled back, which
\* undoes its SET, and the connection goes back to the pool
CloseSession(s) ==
    /\ sessions[s].open
    /\ sessions' = [sessions EXCEPT ![s] = NoSession]
    /\ current_user_id' =
          IF sessions[s].conn # 0
          THEN [current_user_id EXCEPT ![sessions[s].conn] = sessions[s].begin]
          ELSE current_user_id
    /\ UNCHANGED <<strat, singleton, perm_check, disposed, response, registry,
                   server, manager, locals>>

\* --------------------- services/dynamic_db_manager.py: get_db_manager
\* the threads that serve requests
MaxThreads == 3
Threads == 1..MaxThreads

NoThread == [pc |-> "idle", made |-> 0, returned |-> 0]

\* if _db_manager_instance is None
GetManagerTest(t) ==
    /\ threads[t].pc = "idle"
    /\ threads' = [threads EXCEPT ![t].pc =
                      IF db_manager_instance = 0 THEN "construct" ELSE "return"]
    /\ UNCHANGED <<db_manager_instance, managers, strat, legacy, perm_check,
                   disposed, response, registry, server, manager, locals>>

\* DynamicDatabaseManager(): a new manager with its own auth engine and its
\* own _project_engines
GetManagerConstruct(t) ==
    /\ threads[t].pc = "construct"
    /\ managers' = managers + 1
    /\ threads' = [threads EXCEPT ![t].pc = "store", ![t].made = managers + 1]
    /\ UNCHANGED <<db_manager_instance, strat, legacy, perm_check,
                   disposed, response, registry, server, manager, locals>>

\* _db_manager_instance = <the new manager>
GetManagerStore(t) ==
    /\ threads[t].pc = "store"
    /\ db_manager_instance' = threads[t].made
    /\ threads' = [threads EXCEPT ![t].pc = "return"]
    /\ UNCHANGED <<managers, strat, legacy, perm_check,
                   disposed, response, registry, server, manager, locals>>

\* return _db_manager_instance
GetManagerReturn(t) ==
    /\ threads[t].pc = "return"
    /\ threads' = [threads EXCEPT ![t].pc = "idle",
                                  ![t].returned = db_manager_instance]
    /\ UNCHANGED <<db_manager_instance, managers, strat, legacy, perm_check,
                   disposed, response, registry, server, manager, locals>>

\* no call of the modules beside the registry has been made
InitStratCalls ==
    /\ inverse_call = NoInverseCall
    /\ parse_call = NoParseCall

InitLegacy ==
    /\ current_user_id = [k \in Connections |-> Unopened]
    /\ sessions = [s \in Sessions |-> NoSession]

InitSingleton ==
    /\ db_manager_instance = 0
    /\ managers = 0
    /\ threads = [t \in Threads |-> NoThread]

InitOutside ==
    /\ InitStratCalls
    /\ InitLegacy
    /\ InitSingleton

\* ------------------------------------------------------ specification
\* a fresh installation: the auth database holds the administrator that
\* create_admin.py inserts, and nothing else; no file, no policy, no engine
InitRegistry ==
    /\ users = {1}
    /\ projects = [p \in ProjectIds |-> NoProject]
    /\ project_seq = 0
    /\ project_teams = {}

InitServer ==
    /\ files = [f \in Paths |-> "absent"]
    /\ rls = [t \in tables |-> NoRls]
    /\ db_faults = 0

\* DynamicDatabaseManager.__init__: self._project_engines = {}
InitManager ==
    /\ project_engines = [p \in ProjectIds |-> 0]
    /\ engines = <<>>
    /\ handed = [p \in ProjectIds |-> {}]

InitCallers ==
    /\ pc = [c \in Callers |-> "idle"]
    /\ proj = [c \in Callers |-> 0]
    /\ cfg = [c \in Callers |-> NoCfg]
    /\ eng = [c \in Callers |-> 0]
    /\ err = [c \in Callers |-> None]
    /\ effects = [c \in Callers |-> {}]

Init ==
    /\ InitRegistry
    /\ InitServer
    /\ InitManager
    /\ InitCallers
    /\ perm_check = NoCheck
    /\ response = NoResponse
    /\ disposed = [e \in 1..MaxEngines |-> 0]
    /\ InitOutside

\* the steps of DynamicDatabaseManager.get_project_db
Resolve(c) ==
    \/ CacheCheck(c)
    \/ Lookup(c)
    \/ Create(c)
    \/ CopyOpen(c)
    \/ CopyFinish(c)
    \/ OpenEngine(c)
    \/ SetupRls(c)

\* the entry points of a request that needs a project database
Request(c) ==
    \/ \E u \in Users, p \in ProjectIds \cup {0} : get_project_db_session(c, u, p)
    \/ \E p \in ProjectIds : get_project_db_dep(c, p)
    \/ \E u \in Users : get_user_workspace_db(c, u)

\* requests for project databases beside the endpoints that write the
\* registry; the INSERTs of the auth database succeed here, SpecTeam has
\* their failures
Next ==
    \/ \E c \in Callers : Request(c)
    \/ \E c \in Callers : Resolve(c)
    \/ \E e \in 1..MaxEngines : WriteData(e)
    \/ \E u \in Users, mode \in DatabaseMode, path \in ClientPaths,
          outcome \in CopyOutcomes : create_project(u, mode, path, outcome)
    \/ \E u \in Users, p \in ProjectIds : delete_project(u, p)
    \/ \E u \in Users, outcome \in CopyOutcomes : register(u, outcome)

Spec == Init /\ [][Next]_vars

\* ---------------------------------------- the membership-management API
\* the auth database under the project and team endpoints; no request for a
\* project database is in flight, and the clients create postgres projects
NextTeam ==
    \/ \E u \in Users, outcome \in Outcomes : register(u, outcome)
    \/ \E u \in Users, outcome \in Outcomes :
          create_project(u, "postgres", None, outcome)
    \/ \E u \in Users, p \in ProjectIds : delete_project(u, p)
    \/ \E u \in Users, p \in ProjectIds, target \in Users \cup {0},
          role \in UserRole, permissions \in RequestPermissions :
          add_team_member(u, p, target, role, permissions)
    \/ \E u \in Users, p \in ProjectIds, target \in Users \cup {0} :
          remove_team_member(u, p, target)

SpecTeam == Init /\ [][NextTeam]_vars

\* ------------------------------------- the permission check, on any input
InitPerm ==
    /\ InitRegistry
    /\ InitServer
    /\ InitManager
    /\ InitCallers
    /\ response = NoResponse
    /\ disposed = [e \in 1..MaxEngines |-> 0]
    /\ InitOutside
    /\ \E role \in UserRole \cup {None}, permissions \in StoredPermissions,
          permission \in PermNames :
          perm_check = [NoCheck EXCEPT !.role = role,
                                       !.permissions = permissions,
                                       !.permission = permission]

NextPerm == CheckPermissions

SpecPerm == InitPerm /\ [][NextPerm]_vars

\* -------------------------------- get_project_db on any stored db_config
\* the db_config values a row of projects may hold: json.loads gives a dict
\* with any of the keys its mode reads
StoredConfigs(mode) ==
    IF mode = "sqlite"
    THEN {EmptyDict, SQLiteConfigDict(None), SQLiteConfigDict(SitePath)}
    ELSE {PostgresConfigDict} \cup
         {[k \in required_keys \ {missing} |-> PostgresConfigDict[k]] :
             missing \in required_keys}

\* auto_migrate adds db_mode as VARCHAR(50) with no CHECK: the column may
\* hold a value that is not a DatabaseMode
StoredModes == DatabaseMode \cup {"mysql"}

InitCfg ==
    /\ users = {1}
    /\ project_seq = 1
    /\ project_teams = {TeamRow(1, 1, "owner", Permissions(TRUE, TRUE, TRUE))}
    /\ \E mode \in StoredModes : \E db_config \in StoredConfigs(mode) :
          projects = [p \in ProjectIds |->
                         IF p = 1 THEN ProjectRow(1, mode, db_config, FALSE)
                         ELSE NoProject]
    /\ InitServer
    /\ InitManager
    /\ InitCallers
    /\ perm_check = NoCheck
    /\ response = NoResponse
    /\ disposed = [e \in 1..MaxEngines |-> 0]
    /\ InitOutside

NextCfg ==
    \/ \E c \in Callers, p \in ProjectIds : get_project_db_dep(c, p)
    \/ \E c \in Callers : Resolve(c)

SpecCfg == InitCfg /\ [][NextCfg]_vars

\* ------------------------------------------------- the project API
\* the endpoints of routes/projects.py and register; no request for a
\* project database is in flight and no provisioning fails
NextApi ==
    \/ \E u \in Users : register(u, "copied")
    \/ \E u \in Users, mode \in DatabaseMode, path \in {None, SitePath} :
          create_project(u, mode, path, "copied")
    \/ \E u \in Users, p \in ProjectIds, name \in UpdateValues,
          description \in UpdateValues : update_project(u, p, name, description)
    \/ \E u \in Users, p \in ProjectIds : switch_project(u, p)
    \/ \E u \in Users, p \in ProjectIds, valid \in BOOLEAN :
          upload_database(u, p, valid)
    \/ \E u \in Users, p \in ProjectIds, target \in Users,
          role \in {"admin", "viewer"} :
          add_team_member(u, p, target, role, NoPermissions)
    \/ \E u \in Users, p \in ProjectIds, target \in Users :
          remove_team_member(u, p, target)
    \/ \E u \in Users, p \in ProjectIds : delete_project(u, p)

SpecApi == Init /\ [][NextApi]_vars

\* ------------------- hybrid projects on a server that rejects statements
\* every project id has a hybrid row, owned by the administrator, and the
\* shared server will raise on up to MaxFaults of the statements it is sent
InitRls ==
    /\ users = {1}
    /\ project_seq = MaxProjects
    /\ project_teams = {TeamRow(p, 1, "owner", Permissions(TRUE, TRUE, TRUE)) :
                            p \in ProjectIds}
    /\ projects = [p \in ProjectIds |->
                      ProjectRow(1, "hybrid", PostgresConfigDict, FALSE)]
    /\ files = [f \in Paths |-> "absent"]
    /\ rls = [t \in tables |-> NoRls]
    /\ db_faults = MaxFaults
    /\ InitManager
    /\ InitCallers
    /\ perm_check = NoCheck
    /\ response = NoResponse
    /\ disposed = [e \in 1..MaxEngines |-> 0]
    /\ InitOutside

\* get_project_db on hybrid rows takes the hybrid branch only
NextRls ==
    \/ \E c \in Callers, p \in ProjectIds : get_project_db_dep(c, p)
    \/ \E c \in Callers : CacheCheck(c)
    \/ \E c \in Callers : Lookup(c)
    \/ \E c \in Callers : Create(c)
    \/ \E c \in Callers : SetupRls(c)

SpecRls == InitRls /\ [][NextRls]_vars

\* ----------------------------- sessions and shutdown, on any stored row
NextClose ==
    \/ \E c \in Callers, p \in ProjectIds : get_project_db_dep(c, p)
    \/ \E c \in Callers : Resolve(c)
    \/ \E c \in Callers, how \in RequestEnds : ReleaseSession(c, how)
    \/ close_all

SpecClose == InitCfg /\ [][NextClose]_vars

\* ----------------------- the stratigraphic utilities, on any argument
InitStrat ==
    /\ InitRegistry
    /\ InitServer
    /\ InitManager
    /\ InitCallers
    /\ perm_check = NoCheck
    /\ response = NoResponse
    /\ disposed = [e \in 1..MaxEngines |-> 0]
    /\ \E rel_type \in RelTypes :
          inverse_call = [NoInverseCall EXCEPT !.rel_type = rel_type]
    /\ \E data \in ParseInputs :
          parse_call = [NoParseCall EXCEPT !.data = data]
    /\ InitLegacy
    /\ InitSingleton

NextStrat ==
    \/ InverseCall
    \/ InverseBackCall
    \/ ParseCall

SpecStrat == InitStrat /\ [][NextStrat]_vars

\* ------------------- sessions of DatabaseManager in hybrid mode
NextSession ==
    \/ \E s \in Sessions, user_id \in Users \cup {0} : get_session(s, user_id)
    \/ \E s \in Sessions : Execute(s)
    \/ \E s \in Sessions : Commit(s)
    \/ \E s \in Sessions : CloseSession(s)

SpecSession == Init /\ [][NextSession]_vars

\* ------------------- the first calls of get_db_manager, from any thread
NextSingleton ==
    \/ \E t \in Threads : GetManagerTest(t)
    \/ \E t \in Threads : GetManagerConstruct(t)
    \/ \E t \in Threads : GetManagerStore(t)
    \/ \E t \in Threads : GetManagerReturn(t)

SpecSingleton == Init /\ [][NextSingleton]_vars

\* ================================================================ claims
\* C1: when several callers make the first get_project_db call for the same
\* project concurrently, provisioning and engine construction run once: at
\* most one engine is ever constructed for a project, and every engine handed
\* to a caller for that project is the one left in the cache.
C1_OneEnginePerProject ==
    \A p \in ProjectIds :
        /\ Cardinality(EnginesOf(p)) <= 1
        /\ handed[p] \subseteq {project_engines[p]}

\* C2: a cached engine for p is never replaced by a different engine, and
\* once p is cached no further engine is constructed for p.
C2_CachedEngineNeverReplaced ==
    [][\A p \in ProjectIds :
          project_engines[p] # 0 =>
             /\ project_engines'[p] = project_engines[p]
             /\ \A e \in 1..Len(engines') :
                   engines'[e].project_id = p => e <= Len(engines)]_vars

\* C3: a get_project_db call that starts while the project id has no row in
\* projects does not return an engine, whatever was created, resolved and
\* deleted before.
C3_NoRowNoEngine ==
    [][\A c \in Callers :
          (pc[c] = "check" /\ ~projects[proj[c]].exists) => pc'[c] # "done"]_vars

\* C4: a request for a project's database session by a principal with no
\* project_teams row for it is rejected by the dependency itself (access
\* denied, 403, when the project exists): the call of get_project_db is never
\* entered, so nothing is looked up, provisioned or cached for the request.
C4_NonMemberRejected ==
    [][\A c \in Callers, u \in Users, p \in ProjectIds :
          (TeamRows(p, u) = {} /\ get_project_db_session(c, u, p)) =>
             /\ pc'[c] = "failed"
             /\ projects[p].exists => err'[c] = "403"
             /\ effects'[c] = {}
             /\ UNCHANGED <<manager, server>>]_vars

\* a non-member was answered 403 for a project that exists
C4_Witness ==
    \E c \in Callers : pc[c] = "failed" /\ err[c] = "403"

\* C5: the two permission checks give the answer of the matrix: owner and
\* admin pass whatever the stored map says, member and viewer pass exactly
\* when the named permission is present and true in the map, no membership
\* is denied.
C5_PermissionMatrix ==
    perm_check.called =>
       LET role == perm_check.role
           map == perm_check.permissions
           name == perm_check.permission
           expected == IF role \in {"owner", "admin"} THEN TRUE
                       ELSE IF role \in {"member", "viewer"}
                            THEN name \in DOMAIN map /\ map[name]
                            ELSE FALSE
       IN /\ perm_check.check = expected
          /\ perm_check.require = IF expected THEN 200 ELSE 403

\* a viewer whose stored map grants can_delete passed the check for it
C5_Witness ==
    /\ perm_check.called
    /\ perm_check.role = "viewer"
    /\ perm_check.permission = "can_delete"
    /\ perm_check.permissions = [k \in {"can_delete"} |-> TRUE]
    /\ perm_check.check
    /\ perm_check.require = 200

\* the owner's membership row of project p
OwnerRows(p) ==
    {r \in project_teams : r.project_id = p /\ r.user_id = projects[p].owner_id
                           /\ r.role = "owner"}

\* C6: remove_team_member aimed at the owner of an existing project is
\* rejected and leaves project_teams as it was, and after every operation of
\* the project and team endpoints each existing project's owner still holds
\* exactly one membership row, with role owner.
C6_OwnerNeverRemoved ==
    [][/\ \A u \in Users, p \in ProjectIds :
             (projects[p].exists
              /\ remove_team_member(u, p, projects[p].owner_id)) =>
                 /\ response'.status \in {400, 403}
                 /\ project_teams' = project_teams
       /\ \A p \in ProjectIds :
             projects'[p].exists =>
                \E r \in project_teams' :
                   /\ r.project_id = p /\ r.user_id = projects'[p].owner_id
                   /\ r.role = "owner"
                   /\ \A q \in project_teams' :
                         (q.project_id = p /\ q.user_id = r.user_id) => q = r]_vars

\* an admin of the project, who may remove members, asked for the owner's
\* removal and was answered 400; the owner's row is there
C6_Witness ==
    /\ response = [endpoint |-> "remove_team_member", status |-> 400]
    /\ \E p \in ProjectIds :
          /\ projects[p].exists
          /\ OwnerRows(p) # {}
          /\ \E r \in project_teams : r.project_id = p /\ r.role = "admin"

\* C7: once get_project_db has succeeded for a hybrid project p, every
\* isolated table has row security on and a policy whose predicate is
\* project_id = p, for every hybrid project on the shared server.
C7_PolicyIsOwnProject ==
    \A p \in ProjectIds :
        (projects[p].exists /\ projects[p].db_mode = "hybrid"
         /\ project_engines[p] # 0) =>
            \A t \in tables : rls[t].row_security /\ rls[t].policy = p

\* C8: a get_project_db call that fails stores nothing in the cache and hands
\* out nothing; every cache entry is an engine that a successful call
\* returned, so a project on which no call has succeeded has no entry; and a
\* call that finds no entry goes on to the lookup of the row (then validation
\* and provisioning) rather than answering from memory.
C8_FailuresNeverCached ==
    [][/\ \A c \in Callers :
             /\ (pc[c] \in InFlight /\ pc'[c] = "failed") =>
                   /\ project_engines' = project_engines
                   /\ handed' = handed
             /\ (pc[c] = "check" /\ project_engines[proj[c]] = 0
                 /\ pc'[c] # "check") => pc'[c] = "lookup"
       /\ \A p \in ProjectIds :
             project_engines'[p] # 0 => project_engines'[p] \in handed'[p]]_vars

\* the copy of the template failed part-way for project 1, and the cache
\* has no entry for it
C8_Witness ==
    /\ \E c \in Callers : pc[c] = "failed" /\ err[c] = "copy_error"
    /\ files[SitePath] = "partial"
    /\ project_engines[1] = 0

\* C9: a provisioning operation that finds the project's file already there
\* writes nothing: a complete file changes only when a caller writes data
\* through a session.
C9_ExistingFileNotRewritten ==
    [][\A f \in Paths :
          (files[f] \in {"template", "data"} /\ files'[f] # files[f]) =>
             (files[f] = "template" /\ files'[f] = "data")]_vars

\* the db_config read by caller c lacks a field its db_mode requires
LacksRequiredField(c) ==
    IF cfg[c].db_mode = "sqlite"
    THEN DictGet(cfg[c].db_config, "path", None) = None
    ELSE /\ cfg[c].db_mode \in {"postgres", "hybrid"}
         /\ \E key \in required_keys : key \notin DOMAIN cfg[c].db_config

\* C10: when the db_config lacks a required field, get_project_db fails with
\* the configuration error having constructed no engine, attempted no
\* connection, created no directory or file, run no RLS statement and stored
\* nothing in the cache.
C10_ValidationBeforeEffects ==
    [][\A c \in Callers :
          (pc[c] = "create" /\ LacksRequiredField(c) /\ pc'[c] # "create") =>
             /\ pc'[c] = "failed"
             /\ err'[c] = "config"
             /\ effects'[c] = {}
             /\ UNCHANGED <<files, rls, engines, project_engines, handed>>]_vars

\* a hybrid project whose db_config lacks a key: the call failed with the
\* configuration error, and there is no engine and no cache entry
C10_Witness ==
    /\ projects[1].db_mode = "hybrid"
    /\ \E c \in Callers :
          pc[c] = "failed" /\ err[c] = "config" /\ effects[c] = {}
    /\ engines = <<>>
    /\ project_engines[1] = 0

\* the copy of the template, or the directory creation before it, failed
ProvisioningFailures == {"no_template", "copy_error"}

\* C11: when the storage provisioning of create_project or of
\* create_personal_workspace fails after the rows were inserted, the
\* operation returns its error leaving no projects row and no project_teams
\* row of the new project.
C11_NoRowsAfterFailedProvisioning ==
    [][\A u \in Users, outcome \in ProvisioningFailures :
          /\ \A mode \in DatabaseMode, path \in ClientPaths :
                create_project(u, mode, path, outcome) =>
                   UNCHANGED <<projects, project_teams>>
          /\ register(u, outcome) => UNCHANGED <<projects, project_teams>>]_vars

\* C12: the projects row and the owner's project_teams row of a new project
\* become visible in the same step or not at all: a step either leaves the
\* next project id without any row, or gives it its projects row together
\* with exactly the creator's membership row, role owner.
C12_ProjectAndOwnerTogether ==
    [][\A p \in ProjectIds :
          p > project_seq =>
             LET rows == {r \in project_teams' : r.project_id = p} IN
             IF projects'[p].exists
             THEN /\ Cardinality(rows) = 1
                  /\ \A r \in rows : r.user_id = projects'[p].owner_id
                                     /\ r.role = "owner"
             ELSE rows = {}]_vars

\* a project made by create_project and a personal workspace made by
\* register are both there, each with its owner's membership row
C12_Witness ==
    \E p, q \in ProjectIds :
        /\ projects[p].exists /\ ~projects[p].is_personal /\ OwnerRows(p) # {}
        /\ projects[q].exists /\ projects[q].is_personal /\ OwnerRows(q) # {}

\* C13: when a statement of _setup_rls is rejected by the server during
\* get_project_db of a hybrid project, the call fails to its caller, and no
\* engine is returned or cached.
C13_IsolationFailureSurfaced ==
    [][\A c \in Callers :
          (pc[c] = "rls" /\ pc'[c] # "rls" /\ db_faults' < db_faults) =>
             /\ pc'[c] = "failed"
             /\ project_engines' = project_engines
             /\ handed' = handed]_vars

\* C14: whenever get_project_db hands a caller an engine of a sqlite project
\* for the first time, the file behind it is a complete database: the whole
\* template, or data written on top of it, never a part of a copy.
C14_NoEngineOnPartialFile ==
    [][\A p \in ProjectIds :
          \A e \in handed'[p] \ handed[p] :
             engines'[e].url \in Paths =>
                files'[engines'[e].url] \in {"template", "data"}]_vars

\* C15: after every call of close_all, each engine that was handed to a
\* caller has been disposed, and disposed once.
C15_DisposedExactlyOnce ==
    [][disposed' # disposed =>
          \A p \in ProjectIds : \A e \in handed[p] : disposed'[e] = 1]_vars

\* C16: no two existing sqlite projects are bound to the same file.
C16_UniqueSqlitePaths ==
    \A p, q \in ProjectIds :
        (/\ p # q
         /\ projects[p].exists /\ projects[p].db_mode = "sqlite"
         /\ projects[q].exists /\ projects[q].db_mode = "sqlite"
         /\ projects[p].db_config["path"] # None) =>
            projects[p].db_config["path"] # projects[q].db_config["path"]

\* C17: project_teams never holds two rows for one (project_id, user_id);
\* add_team_member for a user who already has a row is refused with a client
\* error, and a row is only ever added for a user who had none.
C17_MembershipUnique ==
    /\ [](/\ \A p \in ProjectIds, u \in Users : Cardinality(TeamRows(p, u)) <= 1
          /\ \A u \in users, p \in ProjectIds, target \in users, role \in UserRole :
                TeamRows(p, target) # {} =>
                   AddStatus(u, p, target, role) \in {400, 403, 422})
    /\ [][\A r \in project_teams' \ project_teams :
             TeamRows(r.project_id, r.user_id) = {}]_vars

\* an admin asked to add a user who is a member already and was answered
\* 400; that user still has one row
C17_Witness ==
    /\ response = [endpoint |-> "add_team_member", status |-> 400]
    /\ \E p \in ProjectIds, u \in Users :
          /\ Cardinality(TeamRows(p, u)) = 1
          /\ \A r \in TeamRows(p, u) : r.role # "owner"

\* C18: no step of the project API changes the db_mode of a project that
\* exists before and after it; ids are never reused, so every project keeps
\* the db_mode it was created with.
C18_ModeImmutable ==
    [][\A p \in ProjectIds :
          (projects[p].exists /\ projects'[p].exists) =>
             projects'[p].db_mode = projects[p].db_mode]_vars

\* a hybrid project was renamed by update_project and is still hybrid
C18_Witness ==
    \E p \in ProjectIds :
        /\ projects[p].exists
        /\ projects[p].name = "renamed"
        /\ projects[p].db_mode = "hybrid"

\* C19: when a caller's session ends, however its request ended, only that
\* session is closed: no engine is disposed, the engine cache is unchanged,
\* and the sessions of the other callers stay on their engines.
C19_ReleaseKeepsEngine ==
    [][\A c \in Callers :
          (pc[c] = "done" /\ pc'[c] = "idle") =>
             /\ disposed' = disposed
             /\ project_engines' = project_engines
             /\ engines' = engines
             /\ \A d \in Callers \ {c} : eng'[d] = eng[d] /\ pc'[d] = pc[d]]_vars

\* one caller's request was cancelled and its session released, while another
\* caller still holds a session on the same, undisposed engine
C19_Witness ==
    \E c, d \in Callers : \E p \in ProjectIds :
        /\ c # d
        /\ pc[c] = "idle" /\ err[c] = "cancelled"
        /\ pc[d] = "done" /\ eng[d] # 0
        /\ handed[p] = {eng[d]}
        /\ \A q \in ProjectIds \ {p} : handed[q] = {}
        /\ project_engines[p] = eng[d]
        /\ disposed[eng[d]] = 0

\* C20: a call of delete_project removes the project when the caller is its
\* owner_id and the project is not a personal workspace, and otherwise leaves
\* projects and project_teams as they are; no step of any endpoint makes an
\* existing personal workspace cease to exist or to be personal.
C20_DeleteOwnerNotPersonal ==
    [][/\ \A u \in Users, p \in ProjectIds :
             delete_project(u, p) =>
                IF /\ projects[p].exists
                   /\ projects[p].owner_id = u
                   /\ ~projects[p].is_personal
                THEN ~projects'[p].exists
                ELSE UNCHANGED <<projects, project_teams>>
       /\ \A p \in ProjectIds :
             (projects[p].exists /\ projects[p].is_personal) =>
                (projects'[p].exists /\ projects'[p].is_personal)]_vars

\* a project that was created has been deleted, and the personal workspace of
\* its owner is still there
C20_Witness ==
    \E p, q \in ProjectIds :
        /\ p <= project_seq
        /\ ~projects[p].exists
        /\ projects[q].exists
        /\ projects[q].is_personal
        /\ projects[q].owner_id \in users

\* C21: when create_personal_workspace fails during register, the request
\* leaves no users row of the user it was registering.
C21_UserRolledBack ==
    [][\A u \in Users, outcome \in Outcomes :
          (register(u, outcome) /\ RegisterStatus(outcome) # 200) =>
             u \notin users']_vars

\* C22: get_inverse_relationship maps every valid relationship type to a
\* valid type whose inverse is the type again, and every other argument to
\* None.
C22_InverseInvolution ==
    /\ inverse_call.inverse # NotCalled =>
          IF inverse_call.rel_type \in VALID_RELATIONSHIPS
          THEN inverse_call.inverse \in VALID_RELATIONSHIPS
          ELSE inverse_call.inverse = None
    /\ (inverse_call.back # NotCalled
        /\ inverse_call.rel_type \in VALID_RELATIONSHIPS) =>
          inverse_call.back = inverse_call.rel_type

\* the inverse of Copre was Coperto da, and the inverse of that Copre
C22_Witness ==
    /\ inverse_call.rel_type = "Copre"
    /\ inverse_call.inverse = "Coperto da"
    /\ inverse_call.back = "Copre"

\* a list of four entries
FourEntries(value) == value.type = "list" /\ Len(value.items) = 4

\* C23: whatever parse_relationships is given, it returns a list, and every
\* element of that list is a list of exactly four entries.
C23_ParseWellFormed ==
    parse_call.result # Unset =>
       /\ parse_call.result.type = "list"
       /\ \A i \in 1..Len(parse_call.result.items) :
             FourEntries(parse_call.result.items[i])

\* C24: a principal with no membership who names a project id is answered
\* access denied (403) by get_current_project, whether or not a project with
\* that id exists.
C24_DeniedWhetherOrNotExists ==
    [][\A c \in Callers, u \in Users, p \in ProjectIds :
          (TeamRows(p, u) = {} /\ get_project_db_session(c, u, p)) =>
             err'[c] = "403"]_vars

\* C25: the team of a personal workspace consists of its owner alone: every
\* project_teams row of an existing personal workspace is a row of the
\* project's owner_id.
C25_PersonalTeamIsOwnerAlone ==
    \A p \in ProjectIds :
        (projects[p].exists /\ projects[p].is_personal) =>
            \A r \in project_teams :
                r.project_id = p => r.user_id = projects[p].owner_id

\* C26: every project_teams row references an existing projects row; in
\* particular none references a project that delete_project has deleted.
C26_TeamRowsReferenceProjects ==
    \A r \in project_teams : projects[r.project_id].exists

\* a table isolated for project p: column, row security and p's policy
Isolated(p) ==
    [project_id_column |-> TRUE, row_security |-> TRUE, policy |-> p]

\* C27: a run of _setup_rls for a project whose tables are all isolated for
\* it already leaves columns, row-security flags and policies as they are,
\* and, unless the server refuses the connection, ends without an error and
\* the engine is returned.
C27_SetupRlsIdempotent ==
    [][\A c \in Callers :
          (/\ pc[c] = "rls"
           /\ pc'[c] # "rls"
           /\ \A t \in tables : rls[t] = Isolated(proj[c])) =>
             /\ rls' = rls
             /\ err'[c] # "connect" => (pc'[c] = "done" /\ err'[c] = None)]_vars

\* two engines were set up for one project without any statement error, so
\* the second run found the tables isolated by the first
C27_Witness ==
    \E p \in ProjectIds :
        /\ Cardinality(handed[p]) = 2
        /\ db_faults = MaxFaults
        /\ \A t \in tables : rls[t] = Isolated(p)

\* C28: every statement of a session of the hybrid DatabaseManager runs with
\* app.current_user_id equal to the user the session was requested for, and
\* with no context when it was requested with no user id.
C28_SessionContextIsOwnUser ==
    \A s \in Sessions :
        (sessions[s].open /\ sessions[s].ran # NotRun) =>
            sessions[s].ran = sessions[s].user_id

\* C29: at most one DynamicDatabaseManager is ever constructed, and every
\* call of get_db_manager returns that one.
C29_OneManager ==
    /\ managers <= 1
    /\ \A t \in Threads : threads[t].returned \in {0, 1}

\* the membership rows of project p with role owner
RowsWithRoleOwner(p) ==
    {r \in project_teams : r.project_id = p /\ r.role = "owner"}

\* C30: every existing project has exactly one project_teams row with role
\* owner, and it is the row of the project's owner_id; a step adds a row with
\* role owner only for a project it creates, so add_team_member adds none.
C30_ExactlyOneOwner ==
    /\ [](\A p \in ProjectIds :
             projects[p].exists =>
                /\ Cardinality(RowsWithRoleOwner(p)) = 1
                /\ \A r \in RowsWithRoleOwner(p) : r.user_id = projects[p].owner_id)
    /\ [][\A r \in project_teams' \ project_teams :
             r.role = "owner" =>
                /\ ~projects[r.project_id].exists
                /\ projects'[r.project_id].exists
                /\ r.user_id = projects'[r.project_id].owner_id]_vars

\* a request naming role owner was refused, on a project that has its owner
\* and another member
C30_Witness ==
    /\ response = [endpoint |-> "add_team_member", status |-> 422]
    /\ \E p \in ProjectIds :
          /\ projects[p].exists
          /\ Cardinality(RowsWithRoleOwner(p)) = 1
          /\ \E r \in project_teams : r.project_id = p /\ r.role # "owner"
====
